---------------------------- MODULE Spec2Model ----------------------------
(***************************************************************************)
(* Cart service (cartService.ts, cartController.ts, fruitService.ts):      *)
(* the tiered promotional-pricing resolver and the cart aggregation.       *)
(*                                                                         *)
(* Money is a JavaScript number in the source.  Here it is an integer      *)
(* count of thousandths of a currency unit, so that prices with more than  *)
(* two decimals exist and the rounding to two decimals is a real           *)
(* operation.  Catalog prices are even numbers of thousandths: no sum is   *)
(* then an exact half-cent tie, the one place where the double result      *)
(* would depend on representation error rather than on the exact value.    *)
(***************************************************************************)
EXTENDS Integers, Sequences, FiniteSets, TLC

(***************************************************************************)
(* Bounds of the model.                                                    *)
(***************************************************************************)
\* largest totalQuantity handed to the resolver in ResolverSpec
MaxQty == 24
\* largest quantity of one POST /api/cart/items request in Spec
MaxReqQty == 2
\* largest paid + free of one cart line, and of one PUT request, in Spec
MaxLineQty == 3

(***************************************************************************)
(* models/fruit.ts: enum OfferType                                         *)
(***************************************************************************)
OfferType == {"NONE", "BUY_1_GET_1_FREE", "BUY_2_GET_3_FREE", "BUY_3_GET_5_FREE"}

(***************************************************************************)
(* JavaScript arithmetic used by the resolver, on integers.                *)
(***************************************************************************)
\* Math.floor(a / b), b > 0
MathFloorDiv(a, b) == a \div b

\* Math.floor in the place of Math.ceil
MathCeilDiv_floor(a, b) == a \div b

\* Math.ceil(a / b), b > 0
MathCeilDiv(a, b) == IF a % b = 0 THEN a \div b ELSE (a \div b) + 1

\* Math.min(a, b)
MathMin(a, b) == IF a <= b THEN a ELSE b

(***************************************************************************)
(* cartService.ts: calculatePaidAndFree                                    *)
(***************************************************************************)
\* BUY_1_GET_1_FREE without the remainder term
BuyOneGetOne_noRemainder(totalQuantity) ==
    LET cycleSize == 2
        paidPerCycle == 1
        completeCycles == MathFloorDiv(totalQuantity, cycleSize)
        paid == completeCycles * paidPerCycle
    IN  [paid |-> paid, free |-> totalQuantity - paid]

\* case OfferType.BUY_1_GET_1_FREE
BuyOneGetOne(totalQuantity) ==
    LET cycleSize == 2
        paidPerCycle == 1
        completeCycles == MathFloorDiv(totalQuantity, cycleSize)
        remainder == totalQuantity % cycleSize
        paid == completeCycles * paidPerCycle + remainder
    IN  [paid |-> paid, free |-> totalQuantity - paid]

\* BUY_2_GET_3_FREE with free taken from the cycle size in the first cycle
BuyTwoGetThree_cycleFree(totalQuantity) ==
    LET cycleSize == 5
        firstCyclePaid == 2
    IN  IF totalQuantity <= cycleSize
        THEN LET paid == MathMin(totalQuantity, firstCyclePaid)
             IN  [paid |-> paid, free |-> cycleSize - paid]
        ELSE LET afterFirstCycle == totalQuantity - cycleSize
                 additionalPaid == MathCeilDiv(afterFirstCycle, cycleSize)
                 paid == firstCyclePaid + additionalPaid
             IN  [paid |-> paid, free |-> totalQuantity - paid]

\* BUY_2_GET_3_FREE by complete cycles, the units of a partial cycle all paid
BuyTwoGetThree_remainderPaid(totalQuantity) ==
    LET cycleSize == 5
        firstCyclePaid == 2
        paid == firstCyclePaid * MathFloorDiv(totalQuantity, cycleSize)
                    + (totalQuantity % cycleSize)
    IN  [paid |-> paid, free |-> totalQuantity - paid]

\* case OfferType.BUY_2_GET_3_FREE
BuyTwoGetThree(totalQuantity) ==
    LET cycleSize == 5
        firstCyclePaid == 2
    IN  IF totalQuantity <= cycleSize
        THEN LET paid == MathMin(totalQuantity, firstCyclePaid)
             IN  [paid |-> paid, free |-> totalQuantity - paid]
        ELSE LET afterFirstCycle == totalQuantity - cycleSize
                 additionalPaid == MathCeilDiv(afterFirstCycle, cycleSize)
                 paid == firstCyclePaid + additionalPaid
             IN  [paid |-> paid, free |-> totalQuantity - paid]

\* BUY_3_GET_5_FREE with free counted from the later cycles only
BuyThreeGetFive_steadyFree(totalQuantity) ==
    LET cycleSize == 8
        firstCyclePaid == 3
    IN  IF totalQuantity <= cycleSize
        THEN LET paid == MathMin(totalQuantity, firstCyclePaid)
             IN  [paid |-> paid, free |-> totalQuantity - paid]
        ELSE LET afterFirstCycle == totalQuantity - cycleSize
                 additionalPaid == MathCeilDiv(afterFirstCycle, cycleSize)
                 paid == firstCyclePaid + additionalPaid
             IN  [paid |-> paid, free |-> afterFirstCycle - additionalPaid]

\* case OfferType.BUY_3_GET_5_FREE
BuyThreeGetFive(totalQuantity) ==
    LET cycleSize == 8
        firstCyclePaid == 3
    IN  IF totalQuantity <= cycleSize
        THEN LET paid == MathMin(totalQuantity, firstCyclePaid)
             IN  [paid |-> paid, free |-> totalQuantity - paid]
        ELSE LET afterFirstCycle == totalQuantity - cycleSize
                 additionalPaid == MathCeilDiv(afterFirstCycle, cycleSize)
                 paid == firstCyclePaid + additionalPaid
             IN  [paid |-> paid, free |-> totalQuantity - paid]

\* const calculatePaidAndFree = (totalQuantity, offerType) => { paid, free }
calculatePaidAndFree(totalQuantity, offerType) ==
    IF totalQuantity <= 0 THEN [paid |-> 0, free |-> 0]
    ELSE CASE offerType = "BUY_1_GET_1_FREE" -> BuyOneGetOne(totalQuantity)
           [] offerType = "BUY_2_GET_3_FREE" -> BuyTwoGetThree(totalQuantity)
           [] offerType = "BUY_3_GET_5_FREE" -> BuyThreeGetFive(totalQuantity)
           [] OTHER -> [paid |-> totalQuantity, free |-> 0]

(***************************************************************************)
(* The catalog (collection Fruit) and the identities of the model.         *)
(***************************************************************************)
\* ids of the fruits in the catalog
FruitIds == {"f1", "f2", "f3"}

\* an id no catalog document has: Fruit.findById returns null for it
GhostFruitId == "f0"

\* the fruits whose offer the admin changes in the model
PromotedFruitIds == {"f1"}

\* the offers the admin moves a promoted fruit between
PromotedOfferTypes == {"NONE", "BUY_1_GET_1_FREE", "BUY_2_GET_3_FREE"}

\* the authenticated users (req.user.userId)
Users == {"u1"}

\* the catalog before any admin update; prices in thousandths
InitialFruits ==
    [f \in FruitIds |->
        CASE f = "f1" -> [price |-> 1000, offerType |-> "NONE",
                         inStock |-> TRUE, stockQuantity |-> 100]
          [] f = "f2" -> [price |-> 4, offerType |-> "BUY_1_GET_1_FREE",
                         inStock |-> TRUE, stockQuantity |-> 1]
          [] OTHER    -> [price |-> 250, offerType |-> "BUY_3_GET_5_FREE",
                         inStock |-> TRUE, stockQuantity |-> 100]]

VARIABLES
    fruits,     \* collection Fruit: id -> price, offerType, inStock, stockQuantity
    carts,      \* collection Cart: userId -> cart document, or NoCart
    lastOp,     \* the request handled last and its outcome
    rQty,       \* resolver run: totalQuantity
    rTier,      \* resolver run: offerType
    rOut,       \* resolver run: the result of calculatePaidAndFree
    rOut2,      \* resolver run: the result of resolving rOut.paid + rOut.free
    rPc,        \* resolver run: "idle", "in", "out" or "re"
    transactions,   \* collection TransactionHistory, in order of insertion
    walletBalance,  \* auth service: userId -> walletBalance
    ck,             \* the checkout request in flight: its locals and position
    reqs,           \* cart requests in flight: slot -> locals and position
    waiting,        \* a second checkout request in flight, parked at an await
    ratings,        \* collection FruitRating, in order of insertion
    fruitRating     \* Fruit.rating: fruitId -> stored average, in tenths

vars == <<fruits, carts, lastOp, rQty, rTier, rOut, rOut2, rPc,
          transactions, walletBalance, ck, reqs, waiting, ratings, fruitRating>>
cartVars == <<fruits, carts, lastOp>>
resolverVars == <<rQty, rTier, rOut, rOut2, rPc>>
checkoutVars == <<transactions, walletBalance, ck>>
raceVars == <<reqs, waiting>>
ratingVars == <<ratings, fruitRating>>

(***************************************************************************)
(* cartService.ts: totals                                                  *)
(***************************************************************************)
\* Math.round(x * 100) / 100 for x >= 0 in thousandths: half rounds up
Round2(x) == ((x + 5) \div 10) * 10

\* items.reduce((acc, item) => acc + term(item), 0)
RECURSIVE Reduce(_, _, _)
Reduce(term(_), items, acc) ==
    IF items = <<>> THEN acc
    ELSE Reduce(term, Tail(items), acc + term(Head(items)))

\* calculateDiscount
calculateDiscount(items) ==
    LET freeItemValue(item) == item.freeItems * item.price
    IN  Reduce(freeItemValue, items, 0)

\* calculateCartTotals with finalPrice derived from the rounded totals
calculateCartTotals_fromRounded(items) ==
    LET units(item) == item.quantity + item.freeItems
        gross(item) == item.price * (item.quantity + item.freeItems)
        totalItems == Reduce(units, items, 0)
        totalPrice == Reduce(gross, items, 0)
        discountAmount == calculateDiscount(items)
    IN  [totalItems |-> totalItems,
         totalPrice |-> Round2(totalPrice),
         discountAmount |-> Round2(discountAmount),
         finalPrice |-> Round2(Round2(totalPrice) - Round2(discountAmount))]

\* calculateCartTotals with the free units left out of totalItems
calculateCartTotals_paidOnly(items) ==
    LET units(item) == item.quantity
        gross(item) == item.price * (item.quantity + item.freeItems)
        totalItems == Reduce(units, items, 0)
        totalPrice == Reduce(gross, items, 0)
        discountAmount == calculateDiscount(items)
        finalPrice == totalPrice - discountAmount
    IN  [totalItems |-> totalItems,
         totalPrice |-> Round2(totalPrice),
         discountAmount |-> Round2(discountAmount),
         finalPrice |-> Round2(finalPrice)]

\* calculateCartTotals
calculateCartTotals(items) ==
    LET units(item) == item.quantity + item.freeItems
        gross(item) == item.price * (item.quantity + item.freeItems)
        totalItems == Reduce(units, items, 0)
        totalPrice == Reduce(gross, items, 0)
        discountAmount == calculateDiscount(items)
        finalPrice == totalPrice - discountAmount
    IN  [totalItems |-> totalItems,
         totalPrice |-> Round2(totalPrice),
         discountAmount |-> Round2(discountAmount),
         finalPrice |-> Round2(finalPrice)]

(***************************************************************************)
(* The cart document (models/cart.ts) and its absence.                     *)
(***************************************************************************)
\* CartModel.findOne found nothing; formatCartResponse(null) has this shape
NoCart ==
    [present |-> FALSE, items |-> <<>>, totalItems |-> 0, totalPrice |-> 0,
     discountAmount |-> 0, finalPrice |-> 0]

\* a cart document holding items, with the totals the handler assigns
CartDoc(items, totals) ==
    [present |-> TRUE, items |-> items, totalItems |-> totals.totalItems,
     totalPrice |-> totals.totalPrice, discountAmount |-> totals.discountAmount,
     finalPrice |-> totals.finalPrice]

\* cart.items.findIndex(item => item.fruitId === fruitId); 0 stands for -1
findIndex(items, fruitId) ==
    IF \E i \in 1..Len(items) : items[i].fruitId = fruitId
    THEN CHOOSE i \in 1..Len(items) :
            /\ items[i].fruitId = fruitId
            /\ \A j \in 1..(i - 1) : items[j].fruitId # fruitId
    ELSE 0

\* cart.items.splice(itemIndex, 1)
splice(items, itemIndex) ==
    [i \in 1..(Len(items) - 1) |->
        IF i < itemIndex THEN items[i] ELSE items[i + 1]]

(***************************************************************************)
(* cartController.ts + cartService.ts: POST /api/cart/items                *)
(***************************************************************************)
\* what lastOp keeps of a request: the handler and the status of the response
\* and, when the request was served, its userId, fruitId and quantity
Handled(op, userId, fruitId, quantity, status) ==
    IF status = "OK"
    THEN [op |-> op, userId |-> userId, fruitId |-> fruitId,
          quantity |-> quantity, status |-> status]
    ELSE [op |-> op, userId |-> userId, fruitId |-> GhostFruitId,
          quantity |-> 0, status |-> status]

\* addToCart without the inStock / stockQuantity test
addToCartStatus_noStockTest(fruitId, quantity) ==
    IF quantity <= 0 THEN "INVALID_QUANTITY"
    ELSE IF fruitId \notin DOMAIN fruits THEN "NOT_FOUND"
    ELSE "OK"

\* the outcome of addToCartController for a body { fruitId, quantity }
addToCartStatus(fruitId, quantity) ==
    IF quantity <= 0 THEN "INVALID_QUANTITY"
    ELSE IF fruitId \notin DOMAIN fruits THEN "NOT_FOUND"
    ELSE IF ~fruits[fruitId].inStock \/ fruits[fruitId].stockQuantity < quantity
         THEN "OUT_OF_STOCK"
    ELSE "OK"

\* addToCart resolving with the tier stored on the line, not the catalog's
addToCartItems_lineTier(items, fruitId, quantity, fruit) ==
    LET existingItemIndex == findIndex(items, fruitId)
    IN  IF existingItemIndex # 0
        THEN LET existingItem == items[existingItemIndex]
                 totalQuantity == existingItem.quantity + existingItem.freeItems + quantity
                 pf == calculatePaidAndFree(totalQuantity, existingItem.offerType)
             IN  [items EXCEPT ![existingItemIndex] =
                    [@ EXCEPT !.quantity = pf.paid, !.freeItems = pf.free]]
        ELSE LET pf == calculatePaidAndFree(quantity, fruit.offerType)
                 newItem == [fruitId |-> fruitId, price |-> fruit.price,
                             quantity |-> pf.paid, offerType |-> fruit.offerType,
                             freeItems |-> pf.free]
             IN  Append(items, newItem)

\* addToCart, from findIndex to the push: the item list after the request
addToCartItems(items, fruitId, quantity, fruit) ==
    LET existingItemIndex == findIndex(items, fruitId)
    IN  IF existingItemIndex # 0
        THEN LET existingItem == items[existingItemIndex]
                 totalQuantity == existingItem.quantity + existingItem.freeItems + quantity
                 pf == calculatePaidAndFree(totalQuantity, fruit.offerType)
             IN  [items EXCEPT ![existingItemIndex] =
                    [@ EXCEPT !.quantity = pf.paid, !.freeItems = pf.free]]
        ELSE LET pf == calculatePaidAndFree(quantity, fruit.offerType)
                 newItem == [fruitId |-> fruitId, price |-> fruit.price,
                             quantity |-> pf.paid, offerType |-> fruit.offerType,
                             freeItems |-> pf.free]
             IN  Append(items, newItem)

\* the units the line of fruitId holds before the request
LineUnits(items, fruitId) ==
    LET i == findIndex(items, fruitId)
    IN  IF i = 0 THEN 0 ELSE items[i].quantity + items[i].freeItems

\* POST /api/cart/items by userId
AddToCart(userId, fruitId, quantity) ==
    LET status == addToCartStatus(fruitId, quantity)
        cart == carts[userId]
    IN  /\ LineUnits(cart.items, fruitId) + quantity <= MaxLineQty
        /\ carts' =
             IF status = "OK"
             THEN LET items == addToCartItems(cart.items, fruitId, quantity, fruits[fruitId])
                  IN  [carts EXCEPT ![userId] = CartDoc(items, calculateCartTotals(items))]
             ELSE carts
        /\ lastOp' = Handled("addToCart", userId, fruitId, quantity, status)
        /\ UNCHANGED <<fruits, resolverVars, checkoutVars, raceVars, ratingVars>>

(***************************************************************************)
(* PUT /api/cart/items/:fruitId                                            *)
(***************************************************************************)
\* updateCartItem resolving with the catalog's tier, not the line's
updateCartItemItems_catalogTier(items, itemIndex, quantity) ==
    IF quantity <= 0
    THEN splice(items, itemIndex)
    ELSE LET pf == calculatePaidAndFree(quantity, fruits[items[itemIndex].fruitId].offerType)
         IN  [items EXCEPT ![itemIndex] =
                [@ EXCEPT !.quantity = pf.paid, !.freeItems = pf.free]]

\* updateCartItem keeping a line of zero units instead of removing it
updateCartItemItems_keepZero(items, itemIndex, quantity) ==
    LET pf == calculatePaidAndFree(quantity, items[itemIndex].offerType)
    IN  [items EXCEPT ![itemIndex] =
            [@ EXCEPT !.quantity = pf.paid, !.freeItems = pf.free]]

\* updateCartItem, after the line was found: the item list after the request
updateCartItemItems(items, itemIndex, quantity) ==
    IF quantity <= 0
    THEN splice(items, itemIndex)
    ELSE LET pf == calculatePaidAndFree(quantity, items[itemIndex].offerType)
         IN  [items EXCEPT ![itemIndex] =
                [@ EXCEPT !.quantity = pf.paid, !.freeItems = pf.free]]

\* PUT /api/cart/items/:fruitId by userId with body { quantity }
UpdateCartItem(userId, fruitId, quantity) ==
    LET cart == carts[userId]
        itemIndex == findIndex(cart.items, fruitId)
        found == cart.present /\ itemIndex # 0
    IN  /\ carts' =
             IF found
             THEN LET items == updateCartItemItems(cart.items, itemIndex, quantity)
                  IN  [carts EXCEPT ![userId] = CartDoc(items, calculateCartTotals(items))]
             ELSE carts
        /\ lastOp' = Handled("updateCartItem", userId, fruitId, quantity,
                              IF found THEN "OK" ELSE "NOT_FOUND")
        /\ UNCHANGED <<fruits, resolverVars, checkoutVars, raceVars, ratingVars>>

(***************************************************************************)
(* DELETE /api/cart/items/:fruitId and DELETE /api/cart                    *)
(***************************************************************************)
\* removeFromCart, after the line was found: the item list after the request
removeFromCartItems(items, itemIndex) == splice(items, itemIndex)

\* removeFromCart without the itemIndex === -1 return: splice(-1, 1) deletes
\* the last line of the cart
RemoveFromCart_spliceMinusOne(userId, fruitId) ==
    LET cart == carts[userId]
        itemIndex == findIndex(cart.items, fruitId)
        found == cart.present
    IN  /\ carts' =
             IF found
             THEN LET items == removeFromCartItems(cart.items,
                                  IF itemIndex = 0 THEN Len(cart.items) ELSE itemIndex)
                  IN  [carts EXCEPT ![userId] = CartDoc(items, calculateCartTotals(items))]
             ELSE carts
        /\ lastOp' = Handled("removeFromCart", userId, fruitId, 0,
                              IF found THEN "OK" ELSE "NOT_FOUND")
        /\ UNCHANGED <<fruits, resolverVars, checkoutVars, raceVars, ratingVars>>

\* DELETE /api/cart/items/:fruitId by userId
RemoveFromCart(userId, fruitId) ==
    LET cart == carts[userId]
        itemIndex == findIndex(cart.items, fruitId)
        found == cart.present /\ itemIndex # 0
    IN  /\ carts' =
             IF found
             THEN LET items == removeFromCartItems(cart.items, itemIndex)
                  IN  [carts EXCEPT ![userId] = CartDoc(items, calculateCartTotals(items))]
             ELSE carts
        /\ lastOp' = Handled("removeFromCart", userId, fruitId, 0,
                              IF found THEN "OK" ELSE "NOT_FOUND")
        /\ UNCHANGED <<fruits, resolverVars, checkoutVars, raceVars, ratingVars>>

\* clearCart deleting with an empty filter: every user's cart goes
ClearCart_everyUser(userId) ==
    /\ carts' = [u \in DOMAIN carts |-> NoCart]
    /\ lastOp' = Handled("clearCart", userId, GhostFruitId, 0, "OK")
    /\ UNCHANGED <<fruits, resolverVars, checkoutVars, raceVars, ratingVars>>

\* DELETE /api/cart by userId: CartModel.deleteOne({ userId })
ClearCart(userId) ==
    /\ carts' = [carts EXCEPT ![userId] = NoCart]
    /\ lastOp' = Handled("clearCart", userId, GhostFruitId, 0, "OK")
    /\ UNCHANGED <<fruits, resolverVars, checkoutVars, raceVars, ratingVars>>

(***************************************************************************)
(* fruitService.ts: PUT /api/fruits/:id with body { offerType }            *)
(***************************************************************************)
\* updateFruit(id, { offerType }): the catalog's tier of one fruit changes
UpdateFruit(fruitId, offerType) ==
    /\ fruits[fruitId].offerType # offerType
    /\ fruits' = [fruits EXCEPT ![fruitId].offerType = offerType]
    /\ lastOp' = Handled("updateFruit", "admin", fruitId, 0, "OK")
    /\ UNCHANGED <<carts, resolverVars, checkoutVars, raceVars, ratingVars>>

(***************************************************************************)
(* Spec: requests of one user handled one after the other, interleaved     *)
(* with catalog updates.                                                   *)
(***************************************************************************)
NoOp == [op |-> "none", userId |-> "admin", fruitId |-> GhostFruitId,
         quantity |-> 0, status |-> "OK"]

ResolverIdle ==
    /\ rQty = 0
    /\ rTier = "NONE"
    /\ rOut = [paid |-> 0, free |-> 0]
    /\ rOut2 = [paid |-> 0, free |-> 0]
    /\ rPc = "idle"

\* the cart as checkout has it before CartModel.findOne resolves
EmptyCartData ==
    [items |-> <<>>, totalItems |-> 0, totalPrice |-> 0,
     discountAmount |-> 0, finalPrice |-> 0]

\* no checkout request was received yet
NoCheckout ==
    [pc |-> "idle", userId |-> "none", paymentMethod |-> "", method |-> "",
     cartData |-> EmptyCartData, savedTransaction |-> 0, stockCalls |-> <<>>,
     called |-> {}, failed |-> {}, status |-> ""]

\* the balance the auth service holds for each user, in thousandths
InitialWallet == [u \in Users |-> 1500]

CheckoutIdle ==
    /\ transactions = <<>>
    /\ walletBalance = InitialWallet
    /\ ck = NoCheckout

\* the two in-flight cart requests of the race specification
Slots == {"r1", "r2"}

NoRequest ==
    [pc |-> "idle", op |-> "none", userId |-> "none", fruitId |-> GhostFruitId,
     quantity |-> 0, cart |-> NoCart, status |-> ""]

RaceIdle ==
    /\ reqs = [s \in Slots |-> NoRequest]
    /\ waiting = NoCheckout

\* no rating was submitted yet; Fruit.rating has its schema default
RatingIdle ==
    /\ ratings = <<>>
    /\ fruitRating = [f \in FruitIds |-> 0]

Init ==
    /\ fruits = InitialFruits
    /\ carts = [u \in Users |-> NoCart]
    /\ lastOp = NoOp
    /\ ResolverIdle
    /\ CheckoutIdle
    /\ RaceIdle
    /\ RatingIdle

Next ==
    \/ \E u \in Users, f \in FruitIds \cup {GhostFruitId}, q \in 0..MaxReqQty :
            AddToCart(u, f, q)
    \/ \E u \in Users, f \in FruitIds, q \in (-1)..MaxLineQty :
            UpdateCartItem(u, f, q)
    \/ \E u \in Users, f \in FruitIds : RemoveFromCart(u, f)
    \/ \E u \in Users : ClearCart(u)
    \/ \E f \in PromotedFruitIds, t \in PromotedOfferTypes : UpdateFruit(f, t)

Spec == Init /\ [][Next]_vars

(***************************************************************************)
(* ResolverSpec: calculatePaidAndFree applied to every input of the        *)
(* bounded domain, then applied again to the sum of its own output.        *)
(***************************************************************************)
ResolverInit ==
    /\ fruits = InitialFruits
    /\ carts = [u \in Users |-> NoCart]
    /\ lastOp = NoOp
    /\ rQty \in (-2)..MaxQty
    /\ rTier \in OfferType
    /\ rOut = [paid |-> 0, free |-> 0]
    /\ rOut2 = [paid |-> 0, free |-> 0]
    /\ rPc = "in"
    /\ CheckoutIdle
    /\ RaceIdle
    /\ RatingIdle

\* const { paid, free } = calculatePaidAndFree(totalQuantity, offerType)
Resolve ==
    /\ rPc = "in"
    /\ rOut' = calculatePaidAndFree(rQty, rTier)
    /\ rPc' = "out"
    /\ UNCHANGED <<rQty, rTier, rOut2, cartVars, checkoutVars, raceVars, ratingVars>>

\* the next request resolves the units the line now holds, under the same tier
ReResolve ==
    /\ rPc = "out"
    /\ rOut2' = calculatePaidAndFree(rOut.paid + rOut.free, rTier)
    /\ rPc' = "re"
    /\ UNCHANGED <<rQty, rTier, rOut, cartVars, checkoutVars, raceVars, ratingVars>>

ResolverNext == Resolve \/ ReResolve

ResolverSpec == ResolverInit /\ [][ResolverNext]_vars

(***************************************************************************)
(* Properties of the resolver, checked under ResolverSpec.                 *)
(***************************************************************************)
Pair(p, f) == [paid |-> p, free |-> f]

ResolverRan == rPc \in {"out", "re"}

\* C1: for every totalQuantity >= 0 and every tier the resolver returns
\* (paid, free) with paid + free = totalQuantity, paid >= 0 and free >= 0, and
\* (0, 0) for totalQuantity = 0.
C1_PaidPlusFreeIsTotal ==
    (ResolverRan /\ rQty >= 0) =>
        /\ rOut.paid + rOut.free = rQty
        /\ rOut.paid >= 0
        /\ rOut.free >= 0
        /\ (rQty = 0 => rOut = Pair(0, 0))

C1_Witness ==
    /\ rPc = "out"
    /\ rQty = 11
    /\ rTier = "BUY_2_GET_3_FREE"
    /\ rOut.free > 0

\* C2: resolving the sum paid + free of the resolver's own output, with the
\* same tier, gives the same (paid, free) pair again.
C2_ReResolutionIsIdempotent ==
    rPc = "re" => rOut2 = rOut

C2_Witness ==
    /\ rPc = "re"
    /\ rQty = 7
    /\ rTier = "BUY_3_GET_5_FREE"
    /\ rOut2 = Pair(3, 4)

\* C3: for BUY_2_GET_3_FREE (F = 2, C = 5) and BUY_3_GET_5_FREE (F = 3, C = 8)
\* and q >= 1: paid = min(q, F) when q <= C and F + ceil((q - C) / C) when
\* q > C, free = q - paid; with the listed values at 5, 6, 10, 11 and at
\* 3, 8, 9, 16, 17.
C3_FirstCycleThenSteadyState ==
    (ResolverRan /\ rQty >= 1 /\ rTier \in {"BUY_2_GET_3_FREE", "BUY_3_GET_5_FREE"}) =>
        LET F == IF rTier = "BUY_2_GET_3_FREE" THEN 2 ELSE 3
            C == IF rTier = "BUY_2_GET_3_FREE" THEN 5 ELSE 8
            \* the least k with k * C >= q - C
            ceil == CHOOSE k \in 0..rQty :
                        /\ k * C >= rQty - C
                        /\ (k - 1) * C < rQty - C
            paid == IF rQty <= C
                    THEN (IF rQty <= F THEN rQty ELSE F)
                    ELSE F + ceil
        IN  /\ rOut = Pair(paid, rQty - paid)
            /\ (rTier = "BUY_2_GET_3_FREE" =>
                    /\ (rQty = 5 => rOut = Pair(2, 3))
                    /\ (rQty = 6 => rOut = Pair(3, 3))
                    /\ (rQty = 10 => rOut = Pair(3, 7))
                    /\ (rQty = 11 => rOut = Pair(4, 7)))
            /\ (rTier = "BUY_3_GET_5_FREE" =>
                    /\ (rQty = 3 => rOut = Pair(3, 0))
                    /\ (rQty = 8 => rOut = Pair(3, 5))
                    /\ (rQty = 9 => rOut = Pair(4, 5))
                    /\ (rQty = 16 => rOut = Pair(4, 12))
                    /\ (rQty = 17 => rOut = Pair(5, 12)))

C3_Witness ==
    /\ rPc = "out"
    /\ rQty = 17
    /\ rTier = "BUY_3_GET_5_FREE"
    /\ rOut = Pair(5, 12)

\* C4: for BUY_1_GET_1_FREE and q >= 1: paid = floor(q / 2) + (q mod 2),
\* free = q - paid; 1->(1,0), 2->(1,1), 3->(2,1), 4->(2,2), 5->(3,2).
C4_BuyOneGetOneCycleOfTwo ==
    (ResolverRan /\ rQty >= 1 /\ rTier = "BUY_1_GET_1_FREE") =>
        LET paid == (rQty \div 2) + (rQty % 2)
        IN  /\ rOut = Pair(paid, rQty - paid)
            /\ 2 * rOut.paid \in {rQty, rQty + 1}
            /\ (rQty = 1 => rOut = Pair(1, 0))
            /\ (rQty = 2 => rOut = Pair(1, 1))
            /\ (rQty = 3 => rOut = Pair(2, 1))
            /\ (rQty = 4 => rOut = Pair(2, 2))
            /\ (rQty = 5 => rOut = Pair(3, 2))

C4_Witness ==
    /\ rPc = "out"
    /\ rQty = 5
    /\ rTier = "BUY_1_GET_1_FREE"
    /\ rOut = Pair(3, 2)

(***************************************************************************)
(* Properties of the cart, checked under Spec.                             *)
(***************************************************************************)
\* the sum of term over the lines, by index
RECURSIVE LineSum(_, _, _)
LineSum(term(_), items, n) ==
    IF n = 0 THEN 0 ELSE LineSum(term, items, n - 1) + term(items[n])

SumOfUnits(items) ==
    LET t(item) == item.quantity + item.freeItems
    IN  LineSum(t, items, Len(items))

SumOfGross(items) ==
    LET t(item) == item.price * (item.quantity + item.freeItems)
    IN  LineSum(t, items, Len(items))

SumOfFreeValue(items) ==
    LET t(item) == item.price * item.freeItems
    IN  LineSum(t, items, Len(items))

\* r is x rounded to two decimals, a half rounded up (all in thousandths)
IsRounded2(r, x) == r % 10 = 0 /\ x - 5 < r /\ r <= x + 5

\* the request handled last changed the cart of its user
Mutated(op) == lastOp.op = op /\ lastOp.status = "OK"

C7_LineIsResolverOutput ==
    \A u \in Users :
        \A i \in 1..Len(carts[u].items) :
            LET item == carts[u].items[i]
            IN  Pair(item.quantity, item.freeItems) =
                    calculatePaidAndFree(item.quantity + item.freeItems, item.offerType)

\* the position of the line of fruitId, 0 when there is none
LineOf(items, fruitId) ==
    IF \E i \in 1..Len(items) : items[i].fruitId = fruitId
    THEN CHOOSE i \in 1..Len(items) : items[i].fruitId = fruitId
    ELSE 0

NoTwoLinesOfOneFruit(items) ==
    \A i, j \in 1..Len(items) : items[i].fruitId = items[j].fruitId => i = j

\* what a successful Add of q units of f must make of the lines old
AddedAsAdditionalUnits(old, new, f, q, tier) ==
    LET i == LineOf(old, f)
    IN  IF i # 0
        THEN /\ Len(new) = Len(old)
             /\ \A j \in 1..Len(old) : j # i => new[j] = old[j]
             /\ new[i].fruitId = f
             /\ Pair(new[i].quantity, new[i].freeItems) =
                    calculatePaidAndFree(old[i].quantity + old[i].freeItems + q, tier)
        ELSE /\ Len(new) = Len(old) + 1
             /\ \A j \in 1..Len(old) : new[j] = old[j]
             /\ new[Len(new)].fruitId = f
             /\ Pair(new[Len(new)].quantity, new[Len(new)].freeItems) =
                    calculatePaidAndFree(q, tier)

\* C8: a successful Add(itemId, requestedQty) treats the quantity as
\* additional units: an existing line stays one line whose (paid, free) becomes
\* resolve(existingPaid + existingFree + requestedQty, current catalog tier), a
\* missing line is appended with resolve(requestedQty, current tier), the other
\* lines stay, and no cart ever holds two lines of one itemId.
C8_AddIsAdditionalUnits ==
    [][ /\ \A u \in Users : NoTwoLinesOfOneFruit(carts'[u].items)
        /\ (lastOp'.op = "addToCart" /\ lastOp'.status = "OK") =>
              /\ lastOp'.quantity > 0
              /\ AddedAsAdditionalUnits(carts[lastOp'.userId].items,
                                        carts'[lastOp'.userId].items,
                                        lastOp'.fruitId, lastOp'.quantity,
                                        fruits[lastOp'.fruitId].offerType) ]_vars

C8_Witness ==
    \E u \in Users :
        LET items == carts[u].items
            i == LineOf(items, "f1")
        IN  /\ Mutated("addToCart")
            /\ lastOp.fruitId = "f1"
            /\ lastOp.quantity = 2
            /\ fruits["f1"].offerType = "BUY_1_GET_1_FREE"
            /\ Len(items) >= 2
            /\ i # 0
            /\ items[i].offerType # "BUY_1_GET_1_FREE"
            /\ items[i].quantity = 2
            /\ items[i].freeItems = 1

\* what a successful SetQuantity of f to n > 0 must make of the lines old
SetToAbsoluteTotal(old, new, f, n) ==
    LET i == LineOf(old, f)
    IN  /\ i # 0
        /\ Len(new) = Len(old)
        /\ \A j \in 1..Len(old) : j # i => new[j] = old[j]
        /\ new[i].quantity + new[i].freeItems = n
        /\ Pair(new[i].quantity, new[i].freeItems) =
                calculatePaidAndFree(n, old[i].offerType)
        /\ new[i].fruitId = f
        /\ new[i].offerType = old[i].offerType
        /\ new[i].price = old[i].price

\* C9: a successful SetQuantity(itemId, n) with n > 0 treats n as the absolute
\* total: the line then has paid + free = n and (paid, free) = resolve(n, the
\* tier already stored on the line), whatever its previous quantity and the
\* catalog's current tier; all other lines are unchanged.
C9_SetQuantityIsAbsolute ==
    [][ (lastOp'.op = "updateCartItem" /\ lastOp'.status = "OK"
            /\ lastOp'.quantity > 0) =>
              SetToAbsoluteTotal(carts[lastOp'.userId].items,
                                 carts'[lastOp'.userId].items,
                                 lastOp'.fruitId, lastOp'.quantity) ]_vars

C9_Witness ==
    \E u \in Users :
        LET items == carts[u].items
            i == LineOf(items, "f1")
        IN  /\ Mutated("updateCartItem")
            /\ lastOp.fruitId = "f1"
            /\ lastOp.quantity = 2
            /\ Len(items) >= 2
            /\ i # 0
            /\ items[i].offerType = "BUY_1_GET_1_FREE"
            /\ fruits["f1"].offerType = "BUY_2_GET_3_FREE"
            /\ Pair(items[i].quantity, items[i].freeItems) = Pair(1, 1)

\* new is old with exactly the line of f deleted, the rest in place and order
LineDeleted(old, new, f) ==
    LET i == LineOf(old, f)
    IN  /\ i # 0
        /\ Len(new) = Len(old) - 1
        /\ \A j \in 1..(i - 1) : new[j] = old[j]
        /\ \A j \in i..Len(new) : new[j] = old[j + 1]

\* the cart document Remove(itemId) leaves
AfterRemove(cart, f) ==
    LET items == removeFromCartItems(cart.items, findIndex(cart.items, f))
    IN  CartDoc(items, calculateCartTotals(items))

\* C10: a successful SetQuantity(itemId, q) with q <= 0 deletes exactly that
\* line and leaves the cart Remove(itemId) leaves, the other lines keeping
\* content and order; no line with paid + free = 0 remains in any cart; a cart
\* with no lines has totalItems, totalPrice, discountAmount, finalPrice all 0.
C10_SetQuantityZeroIsRemove ==
    [][ /\ (lastOp'.op = "updateCartItem" /\ lastOp'.status = "OK"
               /\ lastOp'.quantity <= 0) =>
              /\ LineDeleted(carts[lastOp'.userId].items,
                             carts'[lastOp'.userId].items, lastOp'.fruitId)
              /\ carts'[lastOp'.userId] =
                    AfterRemove(carts[lastOp'.userId], lastOp'.fruitId)
        /\ (lastOp'.op = "removeFromCart" /\ lastOp'.status = "OK") =>
              LineDeleted(carts[lastOp'.userId].items,
                          carts'[lastOp'.userId].items, lastOp'.fruitId)
        /\ \A u \in Users :
              /\ \A i \in 1..Len(carts'[u].items) :
                    carts'[u].items[i].quantity + carts'[u].items[i].freeItems > 0
              /\ carts'[u].items = <<>> =>
                    /\ carts'[u].totalItems = 0
                    /\ carts'[u].totalPrice = 0
                    /\ carts'[u].discountAmount = 0
                    /\ carts'[u].finalPrice = 0 ]_vars

C10_Witness ==
    \E u \in Users :
        LET items == carts[u].items
        IN  /\ Mutated("updateCartItem")
            /\ lastOp.quantity <= 0
            /\ lastOp.fruitId = "f2"
            /\ carts[u].present
            /\ Len(items) = 2
            /\ items[1].fruitId = "f3"
            /\ items[2].fruitId = "f1"

(***************************************************************************)
(* C11, C12: rejected requests                                             *)
(***************************************************************************)
\* the line list and the four totals of two cart documents are the same
SameLinesAndTotals(c, d) ==
    /\ c.items = d.items
    /\ c.totalItems = d.totalItems
    /\ c.totalPrice = d.totalPrice
    /\ c.discountAmount = d.discountAmount
    /\ c.finalPrice = d.finalPrice

\* C11: a set-quantity or remove request naming a fruit the cart has no
\* line for is answered NOT_FOUND (it is served only when the cart had a
\* line of that fruit), and a request answered NOT_FOUND leaves the line
\* list and the four totals of every cart exactly as they were.
C11_NotFoundLeavesCartUnchanged ==
    [][ lastOp'.op \in {"updateCartItem", "removeFromCart"} =>
          /\ lastOp'.status \in {"OK", "NOT_FOUND"}
          /\ lastOp'.status = "OK" =>
                /\ carts[lastOp'.userId].present
                /\ findIndex(carts[lastOp'.userId].items, lastOp'.fruitId) # 0
          /\ lastOp'.status = "NOT_FOUND" =>
                \A u \in Users : /\ SameLinesAndTotals(carts'[u], carts[u])
                                 /\ carts'[u].present = carts[u].present ]_vars

C11_Witness ==
    /\ lastOp.op = "removeFromCart"
    /\ lastOp.status = "NOT_FOUND"
    /\ carts[lastOp.userId].present
    /\ Len(carts[lastOp.userId].items) = 2
    /\ carts[lastOp.userId].totalItems > 0

\* C12: an add request is served only when its quantity is positive, the
\* fruit is in the catalog, the fruit is in stock and its stock covers the
\* requested quantity; otherwise it is answered INVALID_QUANTITY, NOT_FOUND
\* or OUT_OF_STOCK in that order of tests, and no cart changes.
C12_RejectedAddLeavesCartUnchanged ==
    [][ lastOp'.op = "addToCart" =>
          /\ lastOp'.status \in {"OK", "INVALID_QUANTITY", "NOT_FOUND", "OUT_OF_STOCK"}
          /\ lastOp'.status = "OK" =>
                /\ lastOp'.quantity > 0
                /\ lastOp'.fruitId \in DOMAIN fruits
                /\ fruits[lastOp'.fruitId].inStock
                /\ fruits[lastOp'.fruitId].stockQuantity >= lastOp'.quantity
          /\ lastOp'.status # "OK" => carts' = carts ]_vars

C12_Witness ==
    /\ lastOp.op = "addToCart"
    /\ lastOp.status = "OUT_OF_STOCK"
    /\ carts[lastOp.userId].present
    /\ Len(carts[lastOp.userId].items) = 2
    /\ findIndex(carts[lastOp.userId].items, "f2") # 0

(***************************************************************************)
(* cartController.ts + cartService.ts: POST /api/cart/checkout             *)
(* One action per await of checkout; every collaborator either answers or  *)
(* fails.                                                                  *)
(***************************************************************************)
MaxTransactions == 2

\* models/transactionHistory.ts
PaymentMethod ==
    {"CASH", "CREDIT_CARD", "DEBIT_CARD", "UPI", "NET_BANKING", "WALLET"}

TransactionStatus == {"PENDING", "COMPLETED", "CANCELLED", "REFUNDED", "FAILED"}

\* the paymentMethod of the request body; "" stands for a body without one
SuppliedPaymentMethods == {"", "CASH", "wallet", "bitcoin"}

\* String.prototype.toUpperCase on the strings the requests supply
toUpperCase(str) ==
    CASE str = "wallet"  -> "WALLET"
      [] str = "bitcoin" -> "BITCOIN"
      [] OTHER           -> str

\* one transaction item priced over paid and free units alike
transactionItem_allUnits(item) ==
    [fruitId |-> item.fruitId, quantity |-> item.quantity,
     pricePerUnit |-> item.price, offerApplied |-> item.offerType,
     freeItemsReceived |-> item.freeItems,
     subtotal |-> item.price * (item.quantity + item.freeItems)]

\* cartData.items.map(item => ...): one transaction item of one cart line
transactionItem(item) ==
    [fruitId |-> item.fruitId, quantity |-> item.quantity,
     pricePerUnit |-> item.price, offerApplied |-> item.offerType,
     freeItemsReceived |-> item.freeItems,
     subtotal |-> item.price * item.quantity]

\* new TransactionHistory({ ... })
NewTransaction(userId, cartData, paymentMethod) ==
    [userId |-> userId,
     items |-> [i \in 1..Len(cartData.items) |-> transactionItem(cartData.items[i])],
     totalAmount |-> cartData.totalPrice,
     discountAmount |-> cartData.discountAmount,
     finalAmount |-> cartData.finalPrice,
     currency |-> "INR",
     paymentMethod |-> paymentMethod,
     status |-> "COMPLETED"]

\* the validators of transactionHistorySchema that save() runs
validateTransaction(t) ==
    /\ Len(t.items) > 0
    /\ \A i \in 1..Len(t.items) :
          /\ t.items[i].quantity >= 1
          /\ t.items[i].pricePerUnit >= 0
          /\ t.items[i].offerApplied \in OfferType
          /\ t.items[i].freeItemsReceived >= 0
          /\ t.items[i].subtotal >= 0
    /\ t.totalAmount >= 0
    /\ t.discountAmount >= 0
    /\ t.finalAmount >= 0
    /\ t.paymentMethod \in PaymentMethod
    /\ t.status \in TransactionStatus

\* the request ends: checkout returned or threw, the controller answered
Finish(c, status) == [c EXCEPT !.pc = "done", !.status = status]

\* the collaborator named was invoked, and failed when ~ok
Called(c, name, ok) ==
    [c EXCEPT !.called = @ \cup {name},
              !.failed = IF ok THEN @ ELSE @ \cup {name}]

CheckoutHandled(userId) == Handled("checkout", userId, GhostFruitId, 0, "OK")

\* formatCartResponse(cart) after the totals were recalculated
formatCartResponse(cart) ==
    LET totals == calculateCartTotals(cart.items)
    IN  [items |-> cart.items, totalItems |-> totals.totalItems,
         totalPrice |-> totals.totalPrice,
         discountAmount |-> totals.discountAmount,
         finalPrice |-> totals.finalPrice]

\* checkout validating the payment method before it looks at the cart
CheckoutBegin_validateFirst(userId, paymentMethod) ==
    LET cart == carts[userId]
        method == toUpperCase(paymentMethod)
        c0 == [NoCheckout EXCEPT !.userId = userId, !.paymentMethod = paymentMethod]
        c1 == [Called(c0, "findOne", TRUE) EXCEPT !.cartData = formatCartResponse(cart)]
    IN  /\ ck.pc = "idle"
        /\ Len(transactions) < MaxTransactions
        /\ ck' =
             IF paymentMethod = "" THEN Finish(c0, "PAYMENT_METHOD_REQUIRED")
             ELSE IF method \notin PaymentMethod
                  THEN Finish(c0, "INVALID_PAYMENT_METHOD")
             ELSE IF ~cart.present \/ Len(cart.items) = 0
                  THEN Finish(Called(c0, "findOne", TRUE), "EMPTY_CART")
             ELSE [c1 EXCEPT !.method = method,
                             !.pc = IF method = "WALLET" THEN "profile" ELSE "save"]
        /\ lastOp' = CheckoutHandled(userId)
        /\ UNCHANGED <<fruits, carts, transactions, walletBalance,
                       resolverVars, raceVars, ratingVars>>

\* checkoutController's test of the body, then checkout up to its second
\* await: CartModel.findOne, the empty-cart test, the payment method test
CheckoutBegin(userId, paymentMethod) ==
    LET cart == carts[userId]
        method == toUpperCase(paymentMethod)
        c0 == [NoCheckout EXCEPT !.userId = userId, !.paymentMethod = paymentMethod]
        c1 == [Called(c0, "findOne", TRUE) EXCEPT !.cartData = formatCartResponse(cart)]
    IN  /\ ck.pc = "idle"
        /\ Len(transactions) < MaxTransactions
        /\ ck' =
             IF paymentMethod = "" THEN Finish(c0, "PAYMENT_METHOD_REQUIRED")
             ELSE IF ~cart.present \/ Len(cart.items) = 0
                  THEN Finish(Called(c0, "findOne", TRUE), "EMPTY_CART")
             ELSE IF method \notin PaymentMethod
                  THEN Finish(c1, "INVALID_PAYMENT_METHOD")
             ELSE [c1 EXCEPT !.method = method,
                             !.pc = IF method = "WALLET" THEN "profile" ELSE "save"]
        /\ lastOp' = CheckoutHandled(userId)
        /\ UNCHANGED <<fruits, carts, transactions, walletBalance,
                       resolverVars, raceVars, ratingVars>>

\* checkout deducting without comparing the balance to finalPrice
CheckoutProfile_noBalanceTest(ok) ==
    LET c == Called(ck, "profile", ok)
    IN  /\ ck.pc = "profile"
        /\ ck' =
             IF ~ok THEN Finish(c, "PAYMENT_FAILED")
             ELSE [c EXCEPT !.pc = "deduct"]
        /\ lastOp' = CheckoutHandled(ck.userId)
        /\ UNCHANGED <<fruits, carts, transactions, walletBalance,
                       resolverVars, raceVars, ratingVars>>

\* axios.get(profile) and the test userBalance < cartData.finalPrice; the
\* catch rethrows as 'Wallet payment failed: ...'
CheckoutProfile(ok) ==
    LET c == Called(ck, "profile", ok)
    IN  /\ ck.pc = "profile"
        /\ ck' =
             IF ~ok THEN Finish(c, "PAYMENT_FAILED")
             ELSE IF walletBalance[ck.userId] < ck.cartData.finalPrice
                  THEN Finish(c, "INSUFFICIENT_BALANCE")
             ELSE [c EXCEPT !.pc = "deduct"]
        /\ lastOp' = CheckoutHandled(ck.userId)
        /\ UNCHANGED <<fruits, carts, transactions, walletBalance,
                       resolverVars, raceVars, ratingVars>>

\* axios.post(deduct-balance, { amount: cartData.finalPrice })
CheckoutDeduct(ok) ==
    LET c == Called(ck, "deduct", ok)
    IN  /\ ck.pc = "deduct"
        /\ ck' = IF ok THEN [c EXCEPT !.pc = "save"] ELSE Finish(c, "PAYMENT_FAILED")
        /\ walletBalance' =
              IF ok THEN [walletBalance EXCEPT ![ck.userId] = @ - ck.cartData.finalPrice]
              ELSE walletBalance
        /\ lastOp' = CheckoutHandled(ck.userId)
        /\ UNCHANGED <<fruits, carts, transactions, resolverVars, raceVars, ratingVars>>

\* checkout keeping a single transaction document that every save overwrites
CheckoutSave_oneDocument(ok) ==
    LET c == Called(ck, "save", ok)
        transaction == NewTransaction(ck.userId, ck.cartData, ck.method)
        saved == ok /\ validateTransaction(transaction)
    IN  /\ ck.pc = "save"
        /\ transactions' = IF saved THEN <<transaction>> ELSE transactions
        /\ ck' = IF saved
                 THEN [c EXCEPT !.savedTransaction = Len(transactions'), !.pc = "stock"]
                 ELSE Finish(c, "ERROR")
        /\ lastOp' = CheckoutHandled(ck.userId)
        /\ UNCHANGED <<fruits, carts, walletBalance, resolverVars, raceVars, ratingVars>>

\* checkout reading the user's cart again when it builds the transaction
CheckoutSave_reloadsCart(ok) ==
    LET c == Called(ck, "save", ok)
        transaction == NewTransaction(ck.userId, formatCartResponse(carts[ck.userId]),
                                      ck.method)
        saved == ok /\ validateTransaction(transaction)
    IN  /\ ck.pc = "save"
        /\ transactions' = IF saved THEN Append(transactions, transaction) ELSE transactions
        /\ ck' = IF saved
                 THEN [c EXCEPT !.savedTransaction = Len(transactions'), !.pc = "stock"]
                 ELSE Finish(c, "ERROR")
        /\ lastOp' = CheckoutHandled(ck.userId)
        /\ UNCHANGED <<fruits, carts, walletBalance, resolverVars, raceVars, ratingVars>>

\* the transaction is built from cartData and transaction.save() inserts it
CheckoutSave(ok) ==
    LET c == Called(ck, "save", ok)
        transaction == NewTransaction(ck.userId, ck.cartData, ck.method)
        saved == ok /\ validateTransaction(transaction)
    IN  /\ ck.pc = "save"
        /\ transactions' = IF saved THEN Append(transactions, transaction) ELSE transactions
        /\ ck' = IF saved
                 THEN [c EXCEPT !.savedTransaction = Len(transactions'), !.pc = "stock"]
                 ELSE Finish(c, "ERROR")
        /\ lastOp' = CheckoutHandled(ck.userId)
        /\ UNCHANGED <<fruits, carts, walletBalance, resolverVars, raceVars, ratingVars>>

\* the loop decrementing stock by the paid units of the line only
CheckoutStock_paidOnly(ok) ==
    LET item == ck.cartData.items[Len(ck.stockCalls) + 1]
        units == item.quantity
        c == [Called(ck, "stock", ok) EXCEPT
                !.stockCalls = Append(@, [fruitId |-> item.fruitId,
                                          units |-> units, ok |-> ok])]
    IN  /\ ck.pc = "stock"
        /\ fruits' = IF ok /\ item.fruitId \in DOMAIN fruits
                     THEN [fruits EXCEPT ![item.fruitId].stockQuantity = @ - units]
                     ELSE fruits
        /\ ck' = IF Len(c.stockCalls) = Len(ck.cartData.items)
                 THEN [c EXCEPT !.pc = "notify"]
                 ELSE c
        /\ lastOp' = CheckoutHandled(ck.userId)
        /\ UNCHANGED <<carts, transactions, walletBalance, resolverVars, raceVars, ratingVars>>

\* one turn of the loop: Fruit.findByIdAndUpdate(item.fruitId, { $inc }) for
\* the next line of cartData, its failure caught and logged
CheckoutStock(ok) ==
    LET item == ck.cartData.items[Len(ck.stockCalls) + 1]
        units == item.quantity + item.freeItems
        c == [Called(ck, "stock", ok) EXCEPT
                !.stockCalls = Append(@, [fruitId |-> item.fruitId,
                                          units |-> units, ok |-> ok])]
    IN  /\ ck.pc = "stock"
        /\ fruits' = IF ok /\ item.fruitId \in DOMAIN fruits
                     THEN [fruits EXCEPT ![item.fruitId].stockQuantity = @ - units]
                     ELSE fruits
        /\ ck' = IF Len(c.stockCalls) = Len(ck.cartData.items)
                 THEN [c EXCEPT !.pc = "notify"]
                 ELSE c
        /\ lastOp' = CheckoutHandled(ck.userId)
        /\ UNCHANGED <<carts, transactions, walletBalance, resolverVars, raceVars, ratingVars>>

\* checkout without the try/catch around the notification
CheckoutNotify_throwing(ok) ==
    LET c == Called(ck, "notify", ok)
    IN  /\ ck.pc = "notify"
        /\ ck' = IF ok THEN [c EXCEPT !.pc = "deleteOne"] ELSE Finish(c, "ERROR")
        /\ lastOp' = CheckoutHandled(ck.userId)
        /\ UNCHANGED <<fruits, carts, transactions, walletBalance,
                       resolverVars, raceVars, ratingVars>>

\* axios.post(notify-order), its failure caught and logged
CheckoutNotify(ok) ==
    LET c == Called(ck, "notify", ok)
    IN  /\ ck.pc = "notify"
        /\ ck' = [c EXCEPT !.pc = "deleteOne"]
        /\ lastOp' = CheckoutHandled(ck.userId)
        /\ UNCHANGED <<fruits, carts, transactions, walletBalance,
                       resolverVars, raceVars, ratingVars>>

\* CartModel.deleteOne({ userId }); a rejection leaves checkout by its throw
CheckoutDeleteCart(ok) ==
    LET c == Called(ck, "deleteOne", ok)
    IN  /\ ck.pc = "deleteOne"
        /\ carts' = IF ok THEN [carts EXCEPT ![ck.userId] = NoCart] ELSE carts
        /\ ck' = IF ok THEN [c EXCEPT !.pc = "findById"] ELSE Finish(c, "ERROR")
        /\ lastOp' = CheckoutHandled(ck.userId)
        /\ UNCHANGED <<fruits, transactions, walletBalance, resolverVars, raceVars, ratingVars>>

\* TransactionHistory.findById(savedTransaction._id); a rejection or a null
\* result leaves checkout by a throw
CheckoutFindById(ok) ==
    LET c == Called(ck, "findById", ok)
    IN  /\ ck.pc = "findById"
        /\ ck' = Finish(c, IF ok /\ ck.savedTransaction \in 1..Len(transactions)
                            THEN "OK" ELSE "ERROR")
        /\ lastOp' = CheckoutHandled(ck.userId)
        /\ UNCHANGED <<fruits, carts, transactions, walletBalance,
                       resolverVars, raceVars, ratingVars>>

\* checkoutController answers with what checkout returned or threw, and the
\* locals of the request are gone
CheckoutRespond ==
    /\ ck.pc = "done"
    /\ ck' = NoCheckout
    /\ lastOp' = Handled("checkout", ck.userId, GhostFruitId, 0, ck.status)
    /\ UNCHANGED <<fruits, carts, transactions, walletBalance,
                   resolverVars, raceVars, ratingVars>>

\* the steps of the checkout in flight
CheckoutStep ==
    \E ok \in BOOLEAN :
        \/ CheckoutProfile(ok)
        \/ CheckoutDeduct(ok)
        \/ CheckoutSave(ok)
        \/ CheckoutStock(ok)
        \/ CheckoutNotify(ok)
        \/ CheckoutDeleteCart(ok)
        \/ CheckoutFindById(ok)
        \/ CheckoutRespond

(***************************************************************************)
(* CheckoutSpec: carts the add requests build, checked out one request at  *)
(* a time; no cart request is handled while a checkout is in flight.       *)
(***************************************************************************)
\* cart.items after the add requests <<fruitId, quantity>> of adds, in order
RECURSIVE SeedItems(_)
SeedItems(adds) ==
    IF adds = <<>> THEN <<>>
    ELSE LET n == Len(adds)
         IN  addToCartItems(SeedItems(SubSeq(adds, 1, n - 1)), adds[n][1],
                            adds[n][2], InitialFruits[adds[n][1]])

\* add requests that addToCart serves from an empty cart and InitialFruits
SeedAdds ==
    { << <<"f1", 1>> >>,
      << <<"f2", 1>>, <<"f2", 1>> >>,
      << <<"f1", 2>>, <<"f2", 1>>, <<"f2", 1>> >>,
      << <<"f3", 2>>, <<"f1", 1>> >> }

\* no cart document, a cart whose last line was removed, and seeded carts
SeedCarts ==
    {NoCart, CartDoc(<<>>, calculateCartTotals(<<>>))}
        \cup { CartDoc(SeedItems(a), calculateCartTotals(SeedItems(a))) : a \in SeedAdds }

NoCheckoutInFlight == ck.pc = "idle"

CheckoutInit ==
    /\ fruits = InitialFruits
    /\ carts \in [Users -> SeedCarts]
    /\ lastOp = NoOp
    /\ ResolverIdle
    /\ CheckoutIdle
    /\ RaceIdle
    /\ RatingIdle

CheckoutNext ==
    \/ \E u \in Users, pm \in SuppliedPaymentMethods : CheckoutBegin(u, pm)
    \/ CheckoutStep
    \/ \E u \in Users : NoCheckoutInFlight /\ AddToCart(u, "f1", 1)
    \/ \E u \in Users : NoCheckoutInFlight /\ ClearCart(u)

CheckoutSpec == CheckoutInit /\ [][CheckoutNext]_vars

(***************************************************************************)
(* C13 .. C18: checkout, one request at a time                             *)
(***************************************************************************)
\* the cart of userId has no document or no line
CartIsEmpty(userId) == ~carts[userId].present \/ carts[userId].items = <<>>

C14_InsufficientBalanceChangesNothing ==
    [][ (ck.pc = "profile" /\ ck'.pc # "profile") =>
          /\ (walletBalance[ck.userId] < carts[ck.userId].finalPrice
                  /\ "profile" \notin ck'.failed) =>
                ck'.status = "INSUFFICIENT_BALANCE"
          /\ ck'.status = "INSUFFICIENT_BALANCE" =>
                /\ ck'.pc = "done"
                /\ ck'.called \cap {"deduct", "save", "stock"} = {}
                /\ ck'.savedTransaction = 0
                /\ transactions' = transactions
                /\ fruits' = fruits
                /\ walletBalance' = walletBalance
                /\ carts' = carts
                /\ SameLinesAndTotals(carts'[ck.userId], ck'.cartData) ]_vars

C14_Witness ==
    /\ ck.pc = "done"
    /\ ck.status = "INSUFFICIENT_BALANCE"
    /\ ck.method = "WALLET"
    /\ Len(carts[ck.userId].items) = 2
    /\ walletBalance[ck.userId] < carts[ck.userId].finalPrice

\* C15: whatever the collaborators answer, a checkout step that leaves the
\* request without a persisted transaction changes neither the carts nor
\* the transactions, and a request that ends with a persisted transaction
\* ends with that transaction COMPLETED and the user's cart cleared.
C15_CheckoutIsAtomic ==
    [][ ck' # ck =>
          /\ ck'.savedTransaction = 0 =>
                (carts' = carts /\ transactions' = transactions)
          /\ (ck'.pc = "done" /\ ck'.savedTransaction # 0) =>
                /\ transactions'[ck'.savedTransaction].status = "COMPLETED"
                /\ ~carts'[ck'.userId].present ]_vars

\* C16: a stock update or a notification, failed or not, never ends the
\* request and changes neither transactions nor carts nor wallet; a request
\* in which only stock updates or the notification failed ends OK, with its
\* transaction persisted as built from the loaded cart, COMPLETED, and the
\* user's cart cleared.
C16_BestEffortStepsNeverFailCheckout ==
    [][ /\ ck.pc \in {"stock", "notify"} =>
              /\ ck'.pc \in {"stock", "notify", "deleteOne"}
              /\ ck'.status = ""
              /\ ck'.savedTransaction = ck.savedTransaction
              /\ transactions' = transactions
              /\ carts' = carts
              /\ walletBalance' = walletBalance
        /\ (ck'.pc = "done" /\ ck'.savedTransaction # 0
                /\ ck'.failed \subseteq {"stock", "notify"}) =>
              /\ ck'.status = "OK"
              /\ transactions'[ck'.savedTransaction] =
                    NewTransaction(ck'.userId, ck'.cartData, ck'.method)
              /\ transactions'[ck'.savedTransaction].status = "COMPLETED"
              /\ ~carts'[ck'.userId].present ]_vars

C16_Witness ==
    /\ ck.pc = "done"
    /\ ck.status = "OK"
    /\ ck.failed = {"stock", "notify"}
    /\ Len(ck.stockCalls) = 2
    /\ ~ck.stockCalls[1].ok
    /\ ck.stockCalls[2].ok
    /\ ~carts[ck.userId].present

\* C17: the transaction a checkout inserts has one item per line of the
\* stored cart, in order, with quantity the line's paid units,
\* freeItemsReceived its free units, pricePerUnit and offerApplied the
\* line's price and tier and subtotal = price x paid units; its three
\* amounts are the cart's stored totalPrice, discountAmount and finalPrice,
\* its paymentMethod is one of the six methods and its status is COMPLETED.
C17_TransactionIsFaithfulSnapshot ==
    [][ Len(transactions') > Len(transactions) =>
          LET t == transactions'[Len(transactions')]
              cart == carts[ck.userId]
          IN  /\ t.userId = ck.userId
              /\ Len(t.items) = Len(cart.items)
              /\ \A i \in 1..Len(cart.items) :
                    /\ t.items[i].fruitId = cart.items[i].fruitId
                    /\ t.items[i].quantity = cart.items[i].quantity
                    /\ t.items[i].freeItemsReceived = cart.items[i].freeItems
                    /\ t.items[i].pricePerUnit = cart.items[i].price
                    /\ t.items[i].offerApplied = cart.items[i].offerType
                    /\ t.items[i].subtotal = cart.items[i].price * cart.items[i].quantity
              /\ t.totalAmount = cart.totalPrice
              /\ t.discountAmount = cart.discountAmount
              /\ t.finalAmount = cart.finalPrice
              /\ t.paymentMethod \in PaymentMethod
              /\ t.status = "COMPLETED" ]_vars

C17_Witness ==
    /\ ck.pc = "stock"
    /\ ck.savedTransaction = Len(transactions)
    /\ ck.method = "WALLET"
    /\ LET t == transactions[ck.savedTransaction]
       IN  /\ Len(t.items) = 2
           /\ t.items[1].freeItemsReceived = 1
           /\ t.items[1].quantity = 1
           /\ t.items[1].subtotal = t.items[1].pricePerUnit
           /\ t.finalAmount > 0

RaceRequests ==
    {[op |-> "addToCart", fruitId |-> f, quantity |-> 1] : f \in {"f1", "f3"}}
        \cup {[op |-> "updateCartItem", fruitId |-> "f1", quantity |-> q] : q \in {0, 2}}
        \cup {[op |-> "removeFromCart", fruitId |-> "f1", quantity |-> 0]}

\* the status the handler of request r answers with for the document cart
requestStatus(cart, r) ==
    IF r.op = "addToCart" THEN addToCartStatus(r.fruitId, r.quantity)
    ELSE IF cart.present /\ findIndex(cart.items, r.fruitId) # 0 THEN "OK"
    ELSE "NOT_FOUND"

\* the document the handler of request r holds when it calls cart.save()
requestDocument(cart, r) ==
    LET items ==
            IF r.op = "addToCart"
            THEN addToCartItems(cart.items, r.fruitId, r.quantity, fruits[r.fruitId])
            ELSE IF r.op = "updateCartItem"
            THEN updateCartItemItems(cart.items, findIndex(cart.items, r.fruitId),
                                     r.quantity)
            ELSE removeFromCartItems(cart.items, findIndex(cart.items, r.fruitId))
    IN  CartDoc(items, calculateCartTotals(items))

\* the handler up to its await of cart.save(): Fruit.findById,
\* CartModel.findOne and the tests that reject the request
ReqLoad(slot, userId, r) ==
    LET cart == carts[userId]
        status == requestStatus(cart, r)
    IN  /\ reqs[slot].pc = "idle"
        /\ reqs' = [reqs EXCEPT ![slot] =
                      [pc |-> IF status = "OK" THEN "loaded" ELSE "done",
                       op |-> r.op, userId |-> userId, fruitId |-> r.fruitId,
                       quantity |-> r.quantity, cart |-> cart,
                       status |-> IF status = "OK" THEN "" ELSE status]]
        /\ UNCHANGED <<cartVars, resolverVars, checkoutVars, waiting, ratingVars>>

\* cart.save(): a document created by new CartModel is inserted, and the
\* unique index on userId rejects it when the user has a cart by now; a
\* document that was found is written back over the stored one, and is
\* rejected when the stored one is gone
ReqSave(slot) ==
    LET rq == reqs[slot]
        r == [op |-> rq.op, fruitId |-> rq.fruitId, quantity |-> rq.quantity]
        stored == carts[rq.userId]
        written == rq.cart.present = stored.present
    IN  /\ rq.pc = "loaded"
        /\ carts' = IF written
                    THEN [carts EXCEPT ![rq.userId] = requestDocument(rq.cart, r)]
                    ELSE carts
        /\ reqs' = [reqs EXCEPT ![slot].pc = "done",
                                ![slot].status = IF written THEN "OK" ELSE "ERROR"]
        /\ UNCHANGED <<fruits, lastOp, resolverVars, checkoutVars, waiting, ratingVars>>

\* the cart the two requests race on: one line of one unit of f1
RaceCart == CartDoc(SeedItems(<< <<"f1", 1>> >>),
                    calculateCartTotals(SeedItems(<< <<"f1", 1>> >>)))

MutationRaceInit ==
    /\ fruits = InitialFruits
    /\ carts = [u \in Users |-> RaceCart]
    /\ lastOp = NoOp
    /\ ResolverIdle
    /\ CheckoutIdle
    /\ RaceIdle
    /\ RatingIdle

MutationRaceNext ==
    \/ \E slot \in Slots, u \in Users, r \in RaceRequests : ReqLoad(slot, u, r)
    \/ \E slot \in Slots : ReqSave(slot)

MutationRaceSpec == MutationRaceInit /\ [][MutationRaceNext]_vars

(***************************************************************************)
(* C19: overlapping cart requests                                          *)
(***************************************************************************)
\* the request of a slot, as the client sent it
RequestOf(slot) ==
    [op |-> reqs[slot].op, fruitId |-> reqs[slot].fruitId,
     quantity |-> reqs[slot].quantity]

\* the cart after request r was handled alone on the document cart
Served(cart, r) ==
    IF requestStatus(cart, r) = "OK" THEN requestDocument(cart, r) ELSE cart

\* C19: once two overlapping requests of one user were both answered, the
\* stored cart is the cart that handling them one after the other, in one
\* of the two orders, leaves; and in every state the stored totals are the
\* totals of the stored line list.
C19_MutationsAreSerialized ==
    \A u \in Users :
        /\ (\A slot \in Slots : reqs[slot].pc = "done" /\ reqs[slot].userId = u) =>
              carts[u] \in {Served(Served(RaceCart, RequestOf("r1")), RequestOf("r2")),
                            Served(Served(RaceCart, RequestOf("r2")), RequestOf("r1"))}
        /\ carts[u].present =>
              carts[u] = CartDoc(carts[u].items, calculateCartTotals(carts[u].items))

(***************************************************************************)
(* CheckoutRaceSpec: add requests of the user handled between the awaits   *)
(* of the user's checkout.                                                 *)
(***************************************************************************)
CheckoutRaceNext ==
    \/ \E u \in Users, pm \in SuppliedPaymentMethods : CheckoutBegin(u, pm)
    \/ CheckoutStep
    \/ \E u \in Users : AddToCart(u, "f1", 1)

CheckoutRaceSpec == CheckoutInit /\ [][CheckoutRaceNext]_vars

\* the units of fruitId that transaction t records, paid and free
TransactionUnits(t, fruitId) ==
    LET i == findIndex(t.items, fruitId)
    IN  IF i = 0 THEN 0 ELSE t.items[i].quantity + t.items[i].freeItemsReceived

\* C20: the cart delete of a checkout drops no unit that the checkout's
\* transaction does not record: every line of the cart it deletes holds
\* exactly the units its transaction has for that fruit, so the units of
\* an add served while the checkout was in flight are in the transaction
\* or stay in the cart.
C20_CheckoutDropsNoAddedUnits ==
    [][ (ck.pc = "deleteOne" /\ carts[ck.userId].present
            /\ ~carts'[ck.userId].present) =>
          \A f \in FruitIds :
              LineUnits(carts[ck.userId].items, f) =
                  TransactionUnits(transactions[ck.savedTransaction], f) ]_vars

(***************************************************************************)
(* TwoUserSpec: the requests of two users, each handled by the same        *)
(* handlers under its own userId; the cart requests of either user fall    *)
(* between the awaits of a checkout whose collaborators all answer.        *)
(***************************************************************************)
\* req.user.userId of the two tokens
TwoUsers == Users \cup {"u2"}

TwoUserInit ==
    /\ fruits = InitialFruits
    /\ carts = [u \in TwoUsers |-> NoCart]
    /\ lastOp = NoOp
    /\ ResolverIdle
    /\ transactions = <<>>
    /\ walletBalance = [u \in TwoUsers |-> 1500]
    /\ ck = NoCheckout
    /\ RaceIdle
    /\ RatingIdle

TwoUserNext ==
    \/ \E u \in TwoUsers : AddToCart(u, "f1", 1)
    \/ \E u \in TwoUsers, q \in {0, 2} : UpdateCartItem(u, "f1", q)
    \/ \E u \in TwoUsers : RemoveFromCart(u, "f1")
    \/ \E u \in TwoUsers : ClearCart(u)
    \/ \E u \in TwoUsers : CheckoutBegin(u, "CASH")
    \/ CheckoutSave(TRUE)
    \/ CheckoutStock(TRUE)
    \/ CheckoutNotify(TRUE)
    \/ CheckoutDeleteCart(TRUE)
    \/ CheckoutFindById(TRUE)
    \/ CheckoutRespond

TwoUserSpec == TwoUserInit /\ [][TwoUserNext]_vars

(***************************************************************************)
(* C21: carts of different users                                           *)
(***************************************************************************)
\* C21: every step of a request of one user (add, set quantity, remove,
\* clear, or any step of a checkout) leaves the cart document of every
\* other user, its lines and its four totals, exactly as it was.
C21_CartsAreIndependentPerUser ==
    [][ \A u \in TwoUsers :
            u # lastOp'.userId =>
                /\ SameLinesAndTotals(carts'[u], carts[u])
                /\ carts'[u].present = carts[u].present ]_vars

C21_Witness ==
    /\ ck.pc = "findById"
    /\ ck.userId = "u1"
    /\ ~carts["u1"].present
    /\ carts["u2"].present
    /\ carts["u2"].totalItems = 2
    /\ Len(transactions) = 1

(***************************************************************************)
(* ratingController.ts + ratingService.ts: POST /api/ratings and           *)
(* DELETE /api/ratings/:fruitId, one request at a time                     *)
(***************************************************************************)
\* req.user.userId of the tokens that rate
RatingUsers == TwoUsers \cup {"u3"}

\* the review of a body without one
NoReview == "undefined"

\* the rating and the review the bodies supply; 0 and 6 are out of range
SuppliedRatings == {0, 1, 2, 6}
SuppliedReviews == {NoReview, "good"}

\* Math.round(averageRating * 10) / 10 of sum / count, in tenths
Round1(sum, count) == (20 * sum + count) \div (2 * count)

\* hasUserPurchasedFruit with the userId filter left out
hasUserPurchasedFruit_anyUser(userId, fruitId) ==
    LET bought(i) == \E j \in 1..Len(transactions[i].items) :
                        transactions[i].items[j].fruitId = fruitId
    IN  IF \E i \in 1..Len(transactions) : bought(i)
        THEN CHOOSE i \in 1..Len(transactions) : bought(i)
        ELSE 0

\* hasUserPurchasedFruit: TransactionHistory.findOne({ userId,
\* 'items.fruitId': fruitId, status: 'COMPLETED' }); 0 stands for null
hasUserPurchasedFruit(userId, fruitId) ==
    LET bought(i) == /\ transactions[i].userId = userId
                     /\ transactions[i].status = "COMPLETED"
                     /\ \E j \in 1..Len(transactions[i].items) :
                            transactions[i].items[j].fruitId = fruitId
    IN  IF \E i \in 1..Len(transactions) : bought(i)
        THEN CHOOSE i \in 1..Len(transactions) :
                bought(i) /\ \A k \in 1..(i - 1) : ~bought(k)
        ELSE 0

\* FruitRating.findOne({ userId, fruitId }); 0 stands for null
findRating(rs, userId, fruitId) ==
    IF \E i \in 1..Len(rs) : rs[i].userId = userId /\ rs[i].fruitId = fruitId
    THEN CHOOSE i \in 1..Len(rs) :
            /\ rs[i].userId = userId /\ rs[i].fruitId = fruitId
            /\ \A k \in 1..(i - 1) : ~(rs[k].userId = userId /\ rs[k].fruitId = fruitId)
    ELSE 0

\* the $match / $group of updateFruitAverageRating: sum and count
RECURSIVE ratingStats(_, _)
ratingStats(rs, fruitId) ==
    IF rs = <<>> THEN [sum |-> 0, totalRatings |-> 0]
    ELSE LET rest == ratingStats(Tail(rs), fruitId)
         IN  IF Head(rs).fruitId = fruitId
             THEN [sum |-> rest.sum + Head(rs).rating,
                   totalRatings |-> rest.totalRatings + 1]
             ELSE rest

\* the average cut to one decimal instead of rounded
updateFruitAverageRating_truncated(rs, fruitId) ==
    LET stats == ratingStats(rs, fruitId)
    IN  IF stats.totalRatings = 0 THEN 0
        ELSE (10 * stats.sum) \div stats.totalRatings

\* updateFruitAverageRating: the value written to Fruit.rating, in tenths
updateFruitAverageRating(rs, fruitId) ==
    LET stats == ratingStats(rs, fruitId)
    IN  IF stats.totalRatings = 0 THEN 0
        ELSE Round1(stats.sum, stats.totalRatings)

\* rateFruitController's and rateFruit's tests, in their order
rateFruitStatus(userId, fruitId, rating) ==
    IF rating < 1 \/ rating > 5 THEN "INVALID_RATING"
    ELSE IF fruitId \notin DOMAIN fruits THEN "FRUIT_NOT_FOUND"
    ELSE IF hasUserPurchasedFruit(userId, fruitId) = 0 THEN "NOT_PURCHASED"
    ELSE "OK"

\* rateFruit inserting a new document whether or not one exists
rateFruitRatings_alwaysCreate(rs, userId, fruitId, rating, review, transactionId) ==
    Append(rs, [userId |-> userId, fruitId |-> fruitId, rating |-> rating,
                review |-> review, transactionId |-> transactionId])

\* rateFruit from FruitRating.findOne to save(): the collection afterwards
rateFruitRatings(rs, userId, fruitId, rating, review, transactionId) ==
    LET existingRating == findRating(rs, userId, fruitId)
    IN  IF existingRating # 0
        THEN [rs EXCEPT ![existingRating] =
                [@ EXCEPT !.rating = rating,
                          !.review = IF review # NoReview THEN review ELSE @]]
        ELSE Append(rs, [userId |-> userId, fruitId |-> fruitId, rating |-> rating,
                         review |-> review, transactionId |-> transactionId])

\* what lastOp keeps of a rating request: its outcome and, when it was
\* served, the rating and the review of its body
RatingHandled(op, userId, fruitId, rating, review, status) ==
    IF status = "OK"
    THEN [op |-> op, userId |-> userId, fruitId |-> fruitId, quantity |-> rating,
          review |-> review, status |-> status]
    ELSE [op |-> op, userId |-> userId, fruitId |-> fruitId, quantity |-> 0,
          review |-> NoReview, status |-> status]

\* POST /api/ratings by userId with body { fruitId, rating, review }
RateFruit(userId, fruitId, rating, review) ==
    LET status == rateFruitStatus(userId, fruitId, rating)
        transactionId == hasUserPurchasedFruit(userId, fruitId)
    IN  /\ ratings' = IF status = "OK"
                      THEN rateFruitRatings(ratings, userId, fruitId, rating,
                                            review, transactionId)
                      ELSE ratings
        /\ fruitRating' =
              IF status = "OK"
              THEN [fruitRating EXCEPT ![fruitId] =
                        updateFruitAverageRating(ratings', fruitId)]
              ELSE fruitRating
        /\ lastOp' = RatingHandled("rateFruit", userId, fruitId, rating, review, status)
        /\ UNCHANGED <<fruits, carts, resolverVars, checkoutVars, raceVars>>

\* DELETE /api/ratings/:fruitId by userId: FruitRating.findOneAndDelete and,
\* when a document was deleted, updateFruitAverageRating
DeleteRating(userId, fruitId) ==
    LET i == findRating(ratings, userId, fruitId)
    IN  /\ ratings' = IF i # 0 THEN splice(ratings, i) ELSE ratings
        /\ fruitRating' =
              IF i # 0 /\ fruitId \in DOMAIN fruitRating
              THEN [fruitRating EXCEPT ![fruitId] =
                        updateFruitAverageRating(ratings', fruitId)]
              ELSE fruitRating
        /\ lastOp' = RatingHandled("deleteRating", userId, fruitId, 0, NoReview,
                                   IF i # 0 THEN "OK" ELSE "NOT_FOUND")
        /\ UNCHANGED <<fruits, carts, resolverVars, checkoutVars, raceVars>>

(***************************************************************************)
(* RatingSpec: rating requests of three users over the transactions that   *)
(* earlier checkouts persisted.                                            *)
(***************************************************************************)
\* the transaction a CASH checkout of userId persists for the cart that the
\* add requests adds build
Purchase(userId, adds) ==
    NewTransaction(userId,
                   formatCartResponse(CartDoc(SeedItems(adds),
                                              calculateCartTotals(SeedItems(adds)))),
                   "CASH")

\* transaction collections: none; u1 bought f1 and f2; u1, u2 and u3 bought
\* f1 and u3 bought f3
PurchaseSeeds ==
    { <<>>,
      << Purchase("u1", << <<"f1", 2>>, <<"f2", 1>>, <<"f2", 1>> >>) >>,
      << Purchase("u1", << <<"f1", 2>> >>),
         Purchase("u2", << <<"f1", 1>> >>),
         Purchase("u3", << <<"f3", 2>>, <<"f1", 1>> >>) >> }

RatingInit ==
    /\ fruits = InitialFruits
    /\ carts = [u \in Users |-> NoCart]
    /\ lastOp = NoOp
    /\ ResolverIdle
    /\ transactions \in PurchaseSeeds
    /\ walletBalance = InitialWallet
    /\ ck = NoCheckout
    /\ RaceIdle
    /\ RatingIdle

RatingNext ==
    \/ \E u \in RatingUsers, f \in {"f1", "f2", GhostFruitId},
          r \in SuppliedRatings, rv \in SuppliedReviews : RateFruit(u, f, r, rv)
    \/ \E u \in RatingUsers, f \in {"f1", "f2"} : DeleteRating(u, f)

RatingSpec == RatingInit /\ [][RatingNext]_vars

(***************************************************************************)
(* C22 .. C24: ratings                                                     *)
(***************************************************************************)
\* userId has a COMPLETED transaction with an item of fruitId
HasCompletedPurchase(userId, fruitId) ==
    \E i \in 1..Len(transactions) :
        /\ transactions[i].userId = userId
        /\ transactions[i].status = "COMPLETED"
        /\ \E j \in 1..Len(transactions[i].items) :
              transactions[i].items[j].fruitId = fruitId

\* C22: a rating request is served only when the fruit exists and the user
\* has a COMPLETED transaction containing it; a request for a fruit that
\* does not exist is never answered NOT_PURCHASED; a request that is not
\* served changes neither the ratings nor any stored average; and every
\* stored rating is of a user with a COMPLETED transaction containing its
\* fruit, the one its transactionId names.
C22_OnlyPurchasersRate ==
    [][ lastOp'.op = "rateFruit" =>
          /\ lastOp'.status \in {"OK", "INVALID_RATING", "FRUIT_NOT_FOUND",
                                  "NOT_PURCHASED"}
          /\ lastOp'.status = "OK" =>
                /\ lastOp'.fruitId \in DOMAIN fruits
                /\ HasCompletedPurchase(lastOp'.userId, lastOp'.fruitId)
          /\ lastOp'.status = "NOT_PURCHASED" =>
                /\ lastOp'.fruitId \in DOMAIN fruits
                /\ ~HasCompletedPurchase(lastOp'.userId, lastOp'.fruitId)
          /\ lastOp'.status = "FRUIT_NOT_FOUND" => lastOp'.fruitId \notin DOMAIN fruits
          /\ lastOp'.status # "OK" =>
                (ratings' = ratings /\ fruitRating' = fruitRating)
          /\ \A i \in 1..Len(ratings') :
                /\ HasCompletedPurchase(ratings'[i].userId, ratings'[i].fruitId)
                /\ ratings'[i].transactionId \in 1..Len(transactions)
                /\ transactions[ratings'[i].transactionId].userId = ratings'[i].userId ]_vars

C22_Witness ==
    /\ lastOp.op = "rateFruit"
    /\ lastOp.status = "NOT_PURCHASED"
    /\ lastOp.userId = "u2"
    /\ lastOp.fruitId = "f2"
    /\ Len(ratings) = 1
    /\ ratings[1].fruitId = "f2"
    /\ fruitRating["f2"] = 20

\* the ratings of the pair (userId, fruitId) in the collection rs
RatingsOf(rs, userId, fruitId) ==
    {i \in 1..Len(rs) : rs[i].userId = userId /\ rs[i].fruitId = fruitId}

\* C23: the collection never holds two ratings of one user for one fruit;
\* a served submission of a user who has a rating for the fruit sets that
\* rating's value, sets its review when the body supplies one and keeps it
\* otherwise, and leaves the number and every other rating as they were.
C23_OneRatingPerUserAndFruit ==
    [][ /\ \A u \in RatingUsers, f \in FruitIds :
              Cardinality(RatingsOf(ratings', u, f)) <= 1
        /\ (lastOp'.op = "rateFruit" /\ lastOp'.status = "OK"
                /\ RatingsOf(ratings, lastOp'.userId, lastOp'.fruitId) # {}) =>
              /\ Len(ratings') = Len(ratings)
              /\ \A i \in 1..Len(ratings) :
                    IF i \in RatingsOf(ratings, lastOp'.userId, lastOp'.fruitId)
                    THEN /\ ratings'[i].rating = lastOp'.quantity
                         /\ ratings'[i].review =
                               IF lastOp'.review # NoReview THEN lastOp'.review
                               ELSE ratings[i].review
                         /\ ratings'[i].userId = ratings[i].userId
                         /\ ratings'[i].fruitId = ratings[i].fruitId
                    ELSE ratings'[i] = ratings[i] ]_vars

C23_Witness ==
    /\ lastOp.op = "rateFruit"
    /\ lastOp.status = "OK"
    /\ lastOp.review = NoReview
    /\ lastOp.quantity = 2
    /\ Len(ratings) = 3
    /\ ratings[1].userId = lastOp.userId
    /\ ratings[1].fruitId = lastOp.fruitId
    /\ ratings[1].rating = 2
    /\ ratings[1].review = "good"

\* the sum of the ratings of fruitId in rs
SumOfRatings(rs, fruitId) ==
    LET t(r) == IF r.fruitId = fruitId THEN r.rating ELSE 0
    IN  LineSum(t, rs, Len(rs))

\* the number of ratings of fruitId in rs
NumberOfRatings(rs, fruitId) ==
    Cardinality({i \in 1..Len(rs) : rs[i].fruitId = fruitId})

\* C24: after every served rating submission and every served deletion
\* the stored average of the fruit, in tenths, is 0 when the fruit has no
\* rating and otherwise the tenth nearest to sum / number of its current
\* ratings (a half rounding up).
C24_AverageIsMeanOfCurrentRatings ==
    [][ (lastOp'.op \in {"rateFruit", "deleteRating"} /\ lastOp'.status = "OK") =>
          LET f == lastOp'.fruitId
              n == NumberOfRatings(ratings', f)
              sum == SumOfRatings(ratings', f)
              avg == fruitRating'[f]
          IN  IF n = 0 THEN avg = 0
              ELSE 20 * sum - n < 2 * n * avg /\ 2 * n * avg <= 20 * sum + n ]_vars

C24_Witness ==
    /\ lastOp.op = "deleteRating"
    /\ lastOp.status = "OK"
    /\ lastOp.fruitId = "f1"
    /\ NumberOfRatings(ratings, "f1") = 2
    /\ fruitRating["f1"] = 15


(***************************************************************************)
(* SnapshotSpec: every kind of cart request of the user (add, set          *)
(* quantity, remove) handled between the awaits of the user's checkout.    *)
(***************************************************************************)
SnapshotInit ==
    /\ fruits = InitialFruits
    /\ carts \in [Users -> {RaceCart}]
    /\ lastOp = NoOp
    /\ ResolverIdle
    /\ CheckoutIdle
    /\ RaceIdle
    /\ RatingIdle

SnapshotNext ==
    \/ \E u \in Users, pm \in {"CASH", "wallet"} : CheckoutBegin(u, pm)
    \/ CheckoutStep
    \/ \E u \in Users : AddToCart(u, "f1", 1)
    \/ \E u \in Users : UpdateCartItem(u, "f1", 2)
    \/ \E u \in Users : RemoveFromCart(u, "f1")

SnapshotSpec == SnapshotInit /\ [][SnapshotNext]_vars

C26_OneDecrementPerLineAfterPersist ==
    [][ /\ ck'.savedTransaction = 0 => ck'.stockCalls = <<>>
        /\ ck'.stockCalls # ck.stockCalls =>
              /\ ck.savedTransaction \in 1..Len(transactions)
              /\ transactions' = transactions
              /\ (ck'.stockCalls = <<>> \/ Len(ck'.stockCalls) = Len(ck.stockCalls) + 1)
        /\ fruits' # fruits =>
              /\ ck.savedTransaction \in 1..Len(transactions)
              /\ Len(ck'.stockCalls) = Len(ck.stockCalls) + 1
              /\ LET n == Len(ck'.stockCalls)
                     line == transactions[ck.savedTransaction].items[n]
                 IN  /\ ck'.stockCalls[n].ok
                     /\ fruits' = [fruits EXCEPT ![line.fruitId].stockQuantity =
                                       @ - (line.quantity + line.freeItemsReceived)]
        /\ (ck'.pc = "done" /\ ck'.status = "OK") =>
              LET t == transactions'[ck'.savedTransaction]
              IN  /\ Len(ck'.stockCalls) = Len(t.items)
                  /\ \A i \in 1..Len(t.items) :
                        /\ ck'.stockCalls[i].fruitId = t.items[i].fruitId
                        /\ ck'.stockCalls[i].units =
                              t.items[i].quantity + t.items[i].freeItemsReceived
      ]_vars

\* a checkout ended OK after updating the stock of a line with a free unit
C26_Witness ==
    /\ ck.pc = "done"
    /\ ck.status = "OK"
    /\ Len(ck.stockCalls) = 2
    /\ ck.stockCalls[1].ok
    /\ ck.stockCalls[2].ok
    /\ \E i \in 1..2 :
          /\ transactions[ck.savedTransaction].items[i].freeItemsReceived > 0
          /\ ck.stockCalls[i].units > transactions[ck.savedTransaction].items[i].quantity


\* C27: the stockQuantity of no fruit is ever negative.
C27_StockNeverNegative ==
    \A f \in DOMAIN fruits : fruits[f].stockQuantity >= 0


\* C28: when a checkout whose deduct-balance call succeeded has ended, with
\* success or with an error, the collection holds its Transaction, with the
\* amount deducted as finalAmount.
C28_NoDeductionWithoutTransaction ==
    (ck.pc = "done" /\ "deduct" \in ck.called \ ck.failed) =>
        /\ ck.savedTransaction \in 1..Len(transactions)
        /\ transactions[ck.savedTransaction].userId = ck.userId
        /\ transactions[ck.savedTransaction].finalAmount = ck.cartData.finalPrice


(***************************************************************************)
(* OverlapSpec: two checkout requests in flight.  checkout is an async     *)
(* function: at each await the event loop may run the continuation of the  *)
(* other request.  ck holds the locals of the request whose continuation   *)
(* runs next, waiting those of the request parked at its await.  No        *)
(* collaborator fails and no cart request is served.                       *)
(***************************************************************************)
CheckoutSwitch ==
    /\ ck.pc # "done"
    /\ ck.pc # "idle" \/ waiting.pc # "idle"
    /\ ck' = waiting
    /\ waiting' = ck
    /\ UNCHANGED <<fruits, carts, lastOp, transactions, walletBalance,
                   resolverVars, reqs, ratingVars>>

OverlapNext ==
    \/ \E u \in Users, pm \in {"CASH", "wallet"} : CheckoutBegin(u, pm)
    \/ CheckoutProfile(TRUE)
    \/ CheckoutDeduct(TRUE)
    \/ CheckoutSave(TRUE)
    \/ CheckoutStock(TRUE)
    \/ CheckoutNotify(TRUE)
    \/ CheckoutDeleteCart(TRUE)
    \/ CheckoutFindById(TRUE)
    \/ CheckoutRespond
    \/ CheckoutSwitch

OverlapSpec == CheckoutInit /\ [][OverlapNext]_vars

\* C29: with no add served, the cart a user started with is charged at most
\* once: at most one Transaction of the user is inserted, the wallet is
\* debited at most the price of that cart, and no fruit's stock is lowered
\* by more than the units of that cart.
C29_CartChargedAtMostOnce ==
    \A u \in Users :
        /\ Cardinality({i \in 1..Len(transactions) : transactions[i].userId = u}) <= 1
        /\ \A i \in 1..Len(transactions) :
              transactions[i].userId = u =>
                  /\ walletBalance[u] >= InitialWallet[u] - transactions[i].finalAmount
                  /\ \A f \in FruitIds :
                        fruits[f].stockQuantity >=
                            InitialFruits[f].stockQuantity - TransactionUnits(transactions[i], f)


(***************************************************************************)
(* MonotoneSpec: single units added to the lines of one cart, one request  *)
(* after the other, up to MaxQty units in the cart, under a catalog that   *)
(* does not change; f1 carries any of the tiers the admin gives it.         *)
(***************************************************************************)
\* POST /api/cart/items by userId with body { fruitId, quantity: 1 }
AddOneUnit(userId, fruitId) ==
    LET status == addToCartStatus(fruitId, 1)
        cart == carts[userId]
    IN  /\ cart.totalItems < MaxQty
        /\ carts' =
             IF status = "OK"
             THEN LET items == addToCartItems(cart.items, fruitId, 1, fruits[fruitId])
                  IN  [carts EXCEPT ![userId] = CartDoc(items, calculateCartTotals(items))]
             ELSE carts
        /\ lastOp' = Handled("addToCart", userId, fruitId, 1, status)
        /\ UNCHANGED <<fruits, resolverVars, checkoutVars, raceVars, ratingVars>>

MonotoneInit ==
    /\ \E t \in PromotedOfferTypes :
          fruits = [InitialFruits EXCEPT !["f1"].offerType = t]
    /\ carts = [u \in Users |-> NoCart]
    /\ lastOp = NoOp
    /\ ResolverIdle
    /\ CheckoutIdle
    /\ RaceIdle
    /\ RatingIdle

MonotoneNext == \E u \in Users, f \in FruitIds : AddOneUnit(u, f)

MonotoneSpec == MonotoneInit /\ [][MonotoneNext]_vars

\* the paid and free units of the line of fruitId, none when there is no line
LinePair(items, fruitId) ==
    LET i == findIndex(items, fruitId)
    IN  IF i = 0 THEN [paid |-> 0, free |-> 0]
        ELSE [paid |-> items[i].quantity, free |-> items[i].freeItems]

\* the request just served added one unit to the cart of its user
AddedOneUnit ==
    /\ lastOp'.op = "addToCart"
    /\ lastOp'.status = "OK"
    /\ lastOp'.quantity = 1

\* the next whole cent at or above x thousandths
CeilCent(x) == ((x + 9) \div 10) * 10

\* C30 as stated: an add of one unit, the line then holding q + 1 units,
\* leaves paid as it was or raises it by one, never lowers free, never lowers
\* the cart's finalPrice and raises it by at most the fruit's unit price.
C30_AddRaisesPriceByAtMostUnitPrice ==
    [][ AddedOneUnit =>
          LET u == lastOp'.userId
              f == lastOp'.fruitId
              old == LinePair(carts[u].items, f)
              new == LinePair(carts'[u].items, f)
          IN  /\ new.paid + new.free = old.paid + old.free + 1
              /\ old.paid <= new.paid /\ new.paid <= old.paid + 1
              /\ old.free <= new.free
              /\ carts[u].finalPrice <= carts'[u].finalPrice
              /\ carts'[u].finalPrice <= carts[u].finalPrice + fruits[f].price ]_vars

\* C30 amended: an add of one unit, the line then holding q + 1 units,
\* leaves paid as it was or raises it by one, never lowers free, never lowers
\* the cart's finalPrice and raises it by at most the fruit's unit price
\* rounded up to the next cent, which is the unit price itself when the
\* price has no more than two decimals.
C30_AddRaisesPriceByAtMostUnitPriceInCents ==
    [][ AddedOneUnit =>
          LET u == lastOp'.userId
              f == lastOp'.fruitId
              old == LinePair(carts[u].items, f)
              new == LinePair(carts'[u].items, f)
          IN  /\ new.paid + new.free = old.paid + old.free + 1
              /\ old.paid <= new.paid /\ new.paid <= old.paid + 1
              /\ old.free <= new.free
              /\ carts[u].finalPrice <= carts'[u].finalPrice
              /\ carts'[u].finalPrice <= carts[u].finalPrice + CeilCent(fruits[f].price)
              /\ fruits[f].price % 10 = 0 =>
                    carts'[u].finalPrice <= carts[u].finalPrice + fruits[f].price ]_vars

\* the third unit of f2 (0.004 a unit, 1 paid + 1 free before) was added as
\* a second paid unit, and the cart's finalPrice went from 0.00 to 0.01
C30_Witness ==
    /\ lastOp.op = "addToCart" /\ lastOp.status = "OK" /\ lastOp.fruitId = "f2"
    /\ \E u \in Users :
          /\ Len(carts[u].items) = 1
          /\ LinePair(carts[u].items, "f2") = [paid |-> 2, free |-> 1]
          /\ carts[u].finalPrice = 10

=============================================================================
